---- MODULE Spec2Model ----
(***************************************************************************)
(* The UDP <-> WebSocket relay of main.ts as a state machine.              *)
(*                                                                         *)
(* One step of the model is one callback of the single-threaded event      *)
(* loop, run to completion: the sweep timer, a socket event, a WebSocket   *)
(* open / message / close handler, or the 'message' event of the UDP       *)
(* socket with every listener it calls.  Time (Date.now) is a variable     *)
(* that only Tick advances.                                                *)
(*                                                                         *)
(* `event` holds what the last callback did that is visible from outside:  *)
(* the frames pushed with ws.send, the calls of udpSocket.send, the lines  *)
(* written with console.error, the keys that set() overwrote; for a        *)
(* datagram, also whether the callback before it sent the same payload.    *)
(* `registered` is a history variable: the latest udp-send-no-echo request *)
(* per payload; no action reads it.                                        *)
(***************************************************************************)
EXTENDS Integers, Sequences, FiniteSets, TLC

VARIABLES now, nextSweep, udpReady, sentMessages, listeners, readyState,
          deferred, event, registered

\* The WSClient of client.ts: its fields, the sockets it has made, the
\* reconnect timers it has armed, and what its last callback did.
VARIABLES ws, orphans, reconnectAttempts, timers, messageHandlers,
          disconnected, clientEvent

relayVars == <<now, nextSweep, udpReady, sentMessages, listeners, readyState,
               deferred, event, registered>>

clientVars == <<ws, orphans, reconnectAttempts, timers, messageHandlers,
                disconnected, clientEvent>>

vars == <<relayVars, clientVars>>

(***************************************************************************)
(* Bounds of the model.                                                    *)
(***************************************************************************)
MaxClients == 2
MaxTicks == 3
MaxPending == 1
MaxLive == 2
MaxTimers == 2
MaxHandlers == 2

(***************************************************************************)
(* Constants of the program.                                               *)
(***************************************************************************)
UDP_PORT == 6454
NO_ECHO_TIMEOUT == 100
SWEEP_INTERVAL == 50
maxReconnectAttempts == 5
reconnectDelay == 1000

\* Date.now() is read on a grid of one sweep period.
TickMs == SWEEP_INTERVAL
MaxTime == MaxTicks * TickMs

\* The bind has come to its end, one way or the other, before the clock
\* goes past this time.
BindDeadline == TickMs

\* Connections are numbered in the order the server accepts them.
Conns == 1..MaxClients

(***************************************************************************)
(* Inputs.                                                                 *)
(***************************************************************************)
\* rinfo of an inbound datagram: the relay's own loopback, another device.
Sources ==
  { [address |-> "127.0.0.1", port |-> UDP_PORT],
    [address |-> "192.168.1.50", port |-> 50000] }

\* Payloads of inbound datagrams.
InPayloads == { <<1>>, <<1, 2>>, <<2>> }

\* Destinations a client names in a send request.
Loopback == [address |-> "127.0.0.1", port |-> UDP_PORT]
Broadcast == [address |-> "255.255.255.255", port |-> UDP_PORT]

\* A raw WebSocket text frame: what it parses to, field by field.
\* text = "not json" does not parse; "null" parses to null; hasData = FALSE
\* is an object without "data"; port 0 stands for a missing or invalid port;
\* address "" for a missing address.
Raw(text, type, hasData, data, port, address) ==
  [text |-> text, type |-> type, hasData |-> hasData, data |-> data,
   port |-> port, address |-> address]

SendRequest(type, data, target) ==
  Raw("object", type, TRUE, data, target.port, target.address)

NoRaw == Raw("", "", FALSE, <<>>, 0, "")
NotJson == Raw("not json", "", FALSE, <<>>, 0, "")
UnknownType == Raw("object", "unknown", FALSE, <<>>, 0, "")

\* A plain request without "address": the socket sends to the loopback.
NoAddress ==
  SendRequest("udp-send", <<1, 2>>, [address |-> "", port |-> UDP_PORT])

\* Requests the handler sends a datagram for; 257 is not a byte.
WellFormed ==
  { SendRequest("udp-send-no-echo", <<257>>, Loopback),
    SendRequest("udp-send-no-echo", <<1, 2>>, Broadcast),
    NoAddress }

\* A no-echo request whose port is missing: send() throws on it.
BadPort ==
  SendRequest("udp-send-no-echo", <<1, 2>>,
              [address |-> "255.255.255.255", port |-> 0])

Malformed == { NotJson, UnknownType, BadPort }

RawMessages == WellFormed \cup Malformed

(***************************************************************************)
(* Pure helpers.                                                           *)
(***************************************************************************)
Range(s) == { s[i] : i \in 1..Len(s) }

\* Faulty variant of BufferFrom: the entries are kept as they are.
BufferFromAsIs(data) == data

\* Buffer.from(array): every entry is truncated to a byte.
BufferFrom(data) == [i \in 1..Len(data) |-> data[i] % 256]

\* Faulty variant of MsgKey: only the first byte is keyed.
MsgKeyHead(bytes) == [data |-> SubSeq(bytes, 1, 1)]

\* JSON.stringify({ data: [...bytes] }): the text is determined by, and
\* determines, the byte sequence; the record stands for the text.
MsgKey(bytes) == [data |-> bytes]

\* Faulty variant of HandlerKey: the source address and port are keyed too.
HandlerKeyWithSource(msg, rinfo) ==
  [data |-> msg, address |-> rinfo.address, port |-> rinfo.port]

\* msgKey of udpHandler: computed from msg alone, rinfo is not used.
HandlerKey(msg, rinfo) == MsgKey(msg)

\* msgKey of the udp-send-no-echo branch: computed from buf alone.
SendKey(buf, raw) == MsgKey(buf)

\* Faulty variant of MapSet: an entry already present keeps its value.
MapSetKeepFirst(m, k, v) ==
  [x \in (DOMAIN m) \cup {k} |-> IF x \in DOMAIN m THEN m[x] ELSE v]

\* Map.prototype.set
MapSet(m, k, v) == [x \in (DOMAIN m) \cup {k} |-> IF x = k THEN v ELSE m[x]]

EmptyMap == [x \in {} |-> 0]

\* The JSON text pushed to a client, as the object it encodes.
Envelope(msg, rinfo) ==
  [type |-> "udp-message", address |-> rinfo.address, port |-> rinfo.port,
   data |-> msg]

\* dgram's check of the port argument of send().
ValidPort(port) == port \in 1..65535

\* dgram sends to the loopback address when none is given.
DestAddress(address) == IF address = "" THEN "127.0.0.1" ELSE address

NoDgram == [address |-> "", port |-> 0, data |-> <<>>]

NoReg == [at |-> -1, address |-> "", port |-> 0]

BlankEvent ==
  [kind |-> "start", ws |-> 0, raw |-> NoRaw, dgram |-> NoDgram,
   echoOf |-> {}, called |-> {}, skipped |-> {},
   frames |-> [c \in Conns |-> <<>>], udp |-> <<>>, errors |-> <<>>,
   refreshed |-> {}, parked |-> <<>>]

\* Faulty variant of Ev: a client message is acknowledged to every client.
EvAcknowledged(kind) ==
  [BlankEvent EXCEPT
     !.kind = kind,
     !.frames = IF kind = "ws-message"
                THEN [c \in Conns |-> << [type |-> "ack"] >>]
                ELSE @]

\* The event of a callback, before its effects are filled in.
Ev(kind) == [BlankEvent EXCEPT !.kind = kind]

(***************************************************************************)
(* WSClient.  A socket is one `new WebSocket(url)`; its four handlers are  *)
(* closures over the client, so they run whether or not this.ws still      *)
(* refers to the socket.  `ws` is the readyState of the socket this.ws     *)
(* refers to, or "null"; `orphans` counts, per readyState, the sockets     *)
(* the client has made and no longer refers to, whose close event has not  *)
(* fired yet.  `disconnected` is a history variable: disconnect() was      *)
(* called and the user has not called connect() since.                     *)
(***************************************************************************)
LiveStates == {"CONNECTING", "OPEN", "CLOSING"}

NoOrphans == [r \in LiveStates |-> 0]

\* The sockets whose events still reach the client's handlers.
Live(w, o) ==
  (IF w \in LiveStates THEN 1 ELSE 0) + o["CONNECTING"] + o["OPEN"] + o["CLOSING"]

\* The sockets of the client that are open.
OpenSockets(w, o) == (IF w = "OPEN" THEN 1 ELSE 0) + o["OPEN"]

\* What the user passes to sendUDP / sendUDPNoEcho: address "" and port 0
\* stand for an option that is left out (or given as a falsy value).
SendOptions ==
  { [address |-> "", port |-> 0, data |-> <<1, 2>>],
    [address |-> "10.0.0.7", port |-> 9000, data |-> <<257>>] }

\* Frames that arrive on a socket: what JSON.parse makes of event.data.
InFrames == {"udp-message", "other", "not json"}

NoOptions == [address |-> "", port |-> 0, data |-> <<>>]

\* What the last callback of the client did: the frames it sent, whether it
\* threw, the delay of the timer it armed, the frames it received and the
\* calls of message handlers they made, the lines it wrote to console.error.
BlankClientEvent ==
  [kind |-> "start", options |-> NoOptions, thrown |-> FALSE, sent |-> <<>>,
   delay |-> 0, gaveUp |-> FALSE, frames |-> 0, calls |-> 0, errors |-> 0]

CEv(kind) == [BlankClientEvent EXCEPT !.kind = kind]

ClientInit ==
  /\ ws = "null"
  /\ orphans = NoOrphans
  /\ reconnectAttempts = 0
  /\ timers = 0
  /\ messageHandlers = 0
  /\ disconnected = FALSE
  /\ clientEvent = BlankClientEvent

\* isConnected()
IsConnected == ws # "null" /\ ws = "OPEN"

\* this.ws = new WebSocket(this.url): the socket this.ws referred to is not
\* closed and keeps its handlers.
Orphaned(w, o) == IF w \in LiveStates THEN [o EXCEPT ![w] = @ + 1] ELSE o

\* The user calls connect().
Connect ==
  /\ Live(ws, orphans) < MaxLive
  /\ orphans' = Orphaned(ws, orphans)
  /\ ws' = "CONNECTING"
  /\ disconnected' = FALSE
  /\ clientEvent' = CEv("connect")
  /\ UNCHANGED <<reconnectAttempts, timers, messageHandlers>>
  /\ UNCHANGED relayVars

\* The callback of setTimeout in attemptReconnect: this.connect().
ReconnectTimer ==
  /\ timers > 0
  /\ Live(ws, orphans) < MaxLive
  /\ timers' = timers - 1
  /\ orphans' = Orphaned(ws, orphans)
  /\ ws' = "CONNECTING"
  /\ clientEvent' = CEv("reconnect")
  /\ UNCHANGED <<reconnectAttempts, messageHandlers, disconnected>>
  /\ UNCHANGED relayVars

\* The sockets an event can fire on: the one this.ws refers to, or one of
\* the others.
Which == {"this", "orphan"}

HasSocket(which, r) == IF which = "this" THEN ws = r ELSE orphans[r] > 0

\* ws.onopen
SocketOpen(which) ==
  /\ HasSocket(which, "CONNECTING")
  /\ IF which = "this"
     THEN ws' = "OPEN" /\ UNCHANGED orphans
     ELSE /\ orphans' = [orphans EXCEPT !["CONNECTING"] = @ - 1,
                                        !["OPEN"] = @ + 1]
          /\ UNCHANGED ws
  /\ reconnectAttempts' = 0
  /\ clientEvent' = CEv("open")
  /\ UNCHANGED <<timers, messageHandlers, disconnected>>
  /\ UNCHANGED relayVars

\* Faulty variant of Delay: the delay grows linearly.
DelayLinear(n) == reconnectDelay * n

\* reconnectDelay * Math.pow(2, reconnectAttempts - 1), after the increment.
Delay(n) == reconnectDelay * 2 ^ (n - 1)

\* Faulty variant of AttemptReconnect: the limit is compared with > .
AttemptReconnectOneMore(n) ==
  IF n > maxReconnectAttempts
  THEN [attempts |-> n, armed |-> 0, delay |-> 0, gaveUp |-> TRUE]
  ELSE [attempts |-> n + 1, armed |-> 1,
        delay |-> reconnectDelay * 2 ^ n, gaveUp |-> FALSE]

\* attemptReconnect(): the counter after the call, whether a timer was armed
\* and with what delay.
AttemptReconnect(n) ==
  IF n >= maxReconnectAttempts
  THEN [attempts |-> n, armed |-> 0, delay |-> 0, gaveUp |-> TRUE]
  ELSE [attempts |-> n + 1, armed |-> 1, delay |-> Delay(n + 1),
        gaveUp |-> FALSE]

\* ws.onclose, on a socket that was in state r; when the connection could
\* not be made, ws.onerror has logged the error before.
SocketClose(which, r) ==
  /\ HasSocket(which, r)
  /\ reconnectAttempts < maxReconnectAttempts => timers < MaxTimers
  /\ IF which = "this"
     THEN ws' = "CLOSED" /\ UNCHANGED orphans
     ELSE orphans' = [orphans EXCEPT ![r] = @ - 1] /\ UNCHANGED ws
  /\ LET a == AttemptReconnect(reconnectAttempts)
     IN  /\ reconnectAttempts' = a.attempts
         /\ timers' = timers + a.armed
         /\ clientEvent' = [CEv("close") EXCEPT
                              !.delay = a.delay, !.gaveUp = a.gaveUp,
                              !.errors = (IF r = "CONNECTING" THEN 1 ELSE 0)
                                         + (IF a.gaveUp THEN 1 ELSE 0)]
  /\ UNCHANGED <<messageHandlers, disconnected>>
  /\ UNCHANGED relayVars

\* disconnect(): close() starts the closing handshake of a socket that is
\* not closed yet; its close event comes later.
Disconnect ==
  /\ IF ws = "null"
     THEN UNCHANGED <<ws, orphans>>
     ELSE /\ orphans' = IF ws \in LiveStates
                        THEN [orphans EXCEPT !["CLOSING"] = @ + 1]
                        ELSE orphans
          /\ ws' = "null"
  /\ disconnected' = (disconnected \/ ws = "OPEN")
  /\ clientEvent' = CEv("disconnect")
  /\ UNCHANGED <<reconnectAttempts, timers, messageHandlers>>
  /\ UNCHANGED relayVars

\* Faulty variant of Frame: address and port go out as the caller gave them.
FrameAsGiven(type, options) ==
  [type |-> type, address |-> options.address, port |-> options.port,
   data |-> options.data]

\* The object sendUDP / sendUDPNoEcho stringifies.
Frame(type, options) ==
  [type |-> type,
   address |-> IF options.address = "" THEN "127.0.0.1" ELSE options.address,
   port |-> IF options.port = 0 THEN 6454 ELSE options.port,
   data |-> options.data]

\* sendUDP(options) with type "udp-send", sendUDPNoEcho(options) with type
\* "udp-send-no-echo".
Send(type, options) ==
  /\ clientEvent' =
       IF ws = "null" \/ ws # "OPEN"
       THEN [CEv(type) EXCEPT !.options = options, !.thrown = TRUE]
       ELSE [CEv(type) EXCEPT !.options = options,
                              !.sent = << Frame(type, options) >>]
  /\ UNCHANGED <<ws, orphans, reconnectAttempts, timers, messageHandlers,
                 disconnected>>
  /\ UNCHANGED relayVars

\* onMessage(handler)
OnMessage ==
  /\ messageHandlers < MaxHandlers
  /\ messageHandlers' = messageHandlers + 1
  /\ clientEvent' = CEv("onMessage")
  /\ UNCHANGED <<ws, orphans, reconnectAttempts, timers, disconnected>>
  /\ UNCHANGED relayVars

\* clearHandlers()
ClearHandlers ==
  /\ messageHandlers' = 0
  /\ clientEvent' = CEv("clearHandlers")
  /\ UNCHANGED <<ws, orphans, reconnectAttempts, timers, disconnected>>
  /\ UNCHANGED relayVars

\* ws.onmessage for one frame: the handlers it calls, the errors it logs.
OnFrame(frame) ==
  [calls |-> IF frame = "udp-message" THEN messageHandlers ELSE 0,
   errors |-> IF frame = "not json" THEN 1 ELSE 0]

\* A frame arrives on one open socket.
SocketMessage(which, frame) ==
  /\ HasSocket(which, "OPEN")
  /\ clientEvent' = [CEv("message") EXCEPT
                       !.frames = 1,
                       !.calls = OnFrame(frame).calls,
                       !.errors = OnFrame(frame).errors]
  /\ UNCHANGED <<ws, orphans, reconnectAttempts, timers, messageHandlers,
                 disconnected>>
  /\ UNCHANGED relayVars

\* The bridge forwards one datagram: every open socket of the client is a
\* connection of the bridge and is sent the udp-message frame.
BridgeDatagram ==
  /\ OpenSockets(ws, orphans) > 0
  /\ clientEvent' = [CEv("datagram") EXCEPT
                       !.frames = OpenSockets(ws, orphans),
                       !.calls = OpenSockets(ws, orphans)
                                 * OnFrame("udp-message").calls]
  /\ UNCHANGED <<ws, orphans, reconnectAttempts, timers, messageHandlers,
                 disconnected>>
  /\ UNCHANGED relayVars

ClientNext ==
  \/ Connect
  \/ ReconnectTimer
  \/ \E which \in Which : SocketOpen(which)
  \/ \E which \in Which, r \in LiveStates : SocketClose(which, r)
  \/ Disconnect
  \/ \E type \in {"udp-send", "udp-send-no-echo"}, options \in SendOptions :
       Send(type, options)
  \/ OnMessage
  \/ ClearHandlers
  \/ \E which \in Which, frame \in InFrames : SocketMessage(which, frame)
  \/ BridgeDatagram

(***************************************************************************)
(* Initial state: the module has been evaluated, bind() is in progress;    *)
(* the client has been constructed.                                        *)
(***************************************************************************)
Init ==
  /\ now = 0
  /\ nextSweep = SWEEP_INTERVAL
  /\ udpReady = "pending"
  /\ sentMessages = EmptyMap
  /\ listeners = <<>>
  /\ readyState = [c \in Conns |-> "NONE"]
  /\ deferred = <<>>
  /\ event = BlankEvent
  /\ registered = [p \in InPayloads |-> NoReg]
  /\ ClientInit

(***************************************************************************)
(* Time passes.                                                            *)
(***************************************************************************)
\* The process is alive.
Running == udpReady # "exited"

\* The cleanup timer is not late by a whole period: a sweep that is due runs
\* before the clock moves on.  bind() of a local port has succeeded or
\* failed by the end of the first period.
Tick ==
  /\ Running
  /\ udpReady = "pending" => now < BindDeadline
  /\ now + TickMs <= MaxTime
  /\ now < nextSweep
  /\ now' = now + TickMs
  /\ event' = Ev("tick")
  /\ UNCHANGED <<nextSweep, udpReady, sentMessages, listeners, readyState,
                 deferred, registered>>
  /\ UNCHANGED clientVars

(***************************************************************************)
(* The cleanup timer: setInterval(..., 50).                                *)
(***************************************************************************)
\* Faulty variants of Expired: an entry is dropped when its age reaches the
\* window; the subtraction is the wrong way round and nothing ever expires.
ExpiredAtLimit(timestamp, t) == t - timestamp >= NO_ECHO_TIMEOUT

ExpiredSwapped(timestamp, t) == timestamp - t > NO_ECHO_TIMEOUT

\* The test under which the sweep deletes an entry.
Expired(timestamp, t) == t - timestamp > NO_ECHO_TIMEOUT

\* Faulty variant of SweepTable: the sweep empties the table.
SweepTableClears(m, t) == EmptyMap

\* Faulty variant of SweepTable: the sweep deletes nothing.
SweepTableKeepsAll(m, t) == m

\* The entries the sweep leaves in the table.
SweepTable(m, t) == [k \in {x \in DOMAIN m : ~Expired(m[x], t)} |-> m[k]]

\* The timer fires when it is due and is armed again.
Sweep ==
  /\ Running
  /\ now >= nextSweep
  /\ sentMessages' = SweepTable(sentMessages, now)
  /\ nextSweep' = now + SWEEP_INTERVAL
  /\ event' = Ev("sweep")
  /\ UNCHANGED <<now, udpReady, listeners, readyState, deferred, registered>>
  /\ UNCHANGED clientVars

\* The time of the latest sweep (0 before the first: the table was empty).
LastSweep == nextSweep - SWEEP_INTERVAL

(***************************************************************************)
(* websocket.message, after `await udpReady`.  The handler's effects are   *)
(* threaded through a record: the table, the calls of udpSocket.send, the  *)
(* console.error lines, and the two history variables.                     *)
(***************************************************************************)
St(table, reg) ==
  [table |-> table, registered |-> reg,
   udp |-> <<>>, errors |-> <<>>, refreshed |-> {}]

\* catch (err) { console.error("[Bridge] Invalid WS message:", err) }
Caught(st) == [st EXCEPT !.errors = Append(@, "Invalid WS message")]

\* Faulty variant of UdpSend: a failed send is attempted once more.
UdpSendRetry(st, buf, port, address, type, net) ==
  IF ~ValidPort(port) THEN Caught(st)
  ELSE LET dg == [data |-> buf, port |-> port,
                  address |-> DestAddress(address), type |-> type,
                  tracked |-> MsgKey(buf) \in DOMAIN st.table, ok |-> net]
       IN  [st EXCEPT
              !.udp = IF net THEN Append(@, dg) ELSE Append(Append(@, dg), dg),
              !.errors = IF net THEN @ ELSE Append(@, "UDP send error")]

\* udpSocket.send(buf, port, address, cb): a bad port throws before anything
\* is sent; otherwise one datagram is handed to the socket and cb logs the
\* error, if any (net = FALSE).  `tracked` records whether the table holds
\* the payload's key at the moment of the call.
UdpSend(st, buf, port, address, type, net) ==
  IF ~ValidPort(port) THEN Caught(st)
  ELSE [st EXCEPT
          !.udp = Append(@, [data |-> buf, port |-> port,
                             address |-> DestAddress(address), type |-> type,
                             tracked |-> MsgKey(buf) \in DOMAIN st.table,
                             ok |-> net]),
          !.errors = IF net THEN @ ELSE Append(@, "UDP send error")]

\* sentMessages.set(msgKey, Date.now()).  The history variable notes the
\* request when it is a udp-send-no-echo request; `refreshed` notes the key
\* when the table held it already.
Register(st, buf, raw, t) ==
  [st EXCEPT
     !.table = MapSet(@, SendKey(buf, raw), t),
     !.refreshed = IF SendKey(buf, raw) \in DOMAIN st.table
                   THEN @ \cup {SendKey(buf, raw)} ELSE @,
     !.registered =
        IF raw.type = "udp-send-no-echo"
        THEN [@ EXCEPT ![buf] = [at |-> t, address |-> raw.address,
                                 port |-> raw.port]]
        ELSE @]

\* Faulty variant of PlainBranch: the payload is registered as for no-echo.
PlainBranchRegisters(st, raw, t, net) ==
  IF ~raw.hasData THEN Caught(st)
  ELSE LET buf == BufferFrom(raw.data)
       IN  UdpSend(Register(st, buf, raw, t), buf, raw.port, raw.address,
                   raw.type, net)

\* if (msg.type === "udp-send") { ... }
PlainBranch(st, raw, t, net) ==
  IF ~raw.hasData THEN Caught(st)
  ELSE UdpSend(st, BufferFrom(raw.data), raw.port, raw.address, raw.type, net)

\* Faulty variant of NoEchoBranch: the datagram is sent before the payload
\* is registered.
NoEchoBranchSendFirst(st, raw, t, net) ==
  IF ~raw.hasData THEN Caught(st)
  ELSE LET buf == BufferFrom(raw.data)
       IN  Register(UdpSend(st, buf, raw.port, raw.address, raw.type, net),
                    buf, raw, t)

\* if (msg.type === "udp-send-no-echo") { ... }
NoEchoBranch(st, raw, t, net) ==
  IF ~raw.hasData THEN Caught(st)
  ELSE LET buf == BufferFrom(raw.data)
       IN  UdpSend(Register(st, buf, raw, t), buf, raw.port, raw.address,
                   raw.type, net)

\* The try block of websocket.message.
HandleMessage(st, raw, t, net) ==
  IF raw.text # "object" THEN Caught(st)
  ELSE IF raw.type = "udp-send" THEN PlainBranch(st, raw, t, net)
  ELSE IF raw.type = "udp-send-no-echo" THEN NoEchoBranch(st, raw, t, net)
  ELSE st

\* Faulty variant of RunDeferred: a parked handler uses the time at which its
\* message arrived.
RECURSIVE RunDeferredAtReceipt(_, _, _, _)
RunDeferredAtReceipt(st, queue, t, net) ==
  IF queue = <<>> THEN st
  ELSE RunDeferredAtReceipt(
         HandleMessage(st, Head(queue).raw, Head(queue).at, net),
         Tail(queue), t, net)

\* The handlers parked on `await udpReady` resume in the order they arrived.
\* Each is noted with the time it arrived; it runs at the time of the resume.
RECURSIVE RunDeferred(_, _, _, _)
RunDeferred(st, queue, t, net) ==
  IF queue = <<>> THEN st
  ELSE RunDeferred(HandleMessage(st, Head(queue).raw, t, net),
                   Tail(queue), t, net)

(***************************************************************************)
(* The UDP socket's 'listening' and 'error' events.                        *)
(***************************************************************************)
UdpListening ==
  /\ udpReady = "pending"
  /\ \E net \in BOOLEAN :
       LET st == RunDeferred(St(sentMessages, registered),
                             deferred, now, net)
       IN  /\ sentMessages' = st.table
           /\ registered' = st.registered
           /\ event' = [Ev("listening") EXCEPT !.udp = st.udp,
                                               !.errors = st.errors,
                                               !.refreshed = st.refreshed,
                                               !.parked = deferred]
  /\ udpReady' = "resolved"
  /\ deferred' = <<>>
  /\ UNCHANGED <<now, nextSweep, listeners, readyState>>
  /\ UNCHANGED clientVars

\* Faulty variant of UdpBindError: the socket is bound again.
UdpBindErrorRetry ==
  /\ udpReady = "pending"
  /\ udpReady' = "pending"
  /\ deferred' = <<>>
  /\ event' = [Ev("bind-error") EXCEPT !.errors = <<"UDP socket error">>]
  /\ UNCHANGED <<now, nextSweep, sentMessages, listeners, readyState,
                 registered>>
  /\ UNCHANGED clientVars

\* bind() failed: udpReady is rejected and the parked handlers never reach
\* their try block.  Nothing in the program catches the rejection or ends
\* the process: whether it goes on is the runtime's treatment of an
\* unhandled rejection, which either ends the process or only reports it.
UdpBindError ==
  /\ udpReady = "pending"
  /\ \E outcome \in {"rejected", "exited"} : udpReady' = outcome
  /\ deferred' = <<>>
  /\ event' = [Ev("bind-error") EXCEPT !.errors = <<"UDP socket error">>]
  /\ UNCHANGED <<now, nextSweep, sentMessages, listeners, readyState,
                 registered>>
  /\ UNCHANGED clientVars

(***************************************************************************)
(* websocket.open, websocket.close.                                        *)
(***************************************************************************)
\* Faulty variant of Subscribe: the handler is registered twice.
SubscribeTwice(ls, c) == Append(Append(ls, c), c)

\* udpSocket.on("message", udpHandler)
Subscribe(ls, c) == Append(ls, c)

\* Faulty variant of Unsubscribe: every listener is removed.
UnsubscribeAll(ls, c) == <<>>

\* Faulty variant of Unsubscribe: the listener is left registered.
UnsubscribeNothing(ls, c) == ls

\* udpSocket.off("message", ws.data.udpHandler): removes one registration.
RECURSIVE Unsubscribe(_, _)
Unsubscribe(ls, c) ==
  IF ls = <<>> THEN <<>>
  ELSE IF ls[Len(ls)] = c THEN SubSeq(ls, 1, Len(ls) - 1)
  ELSE Append(Unsubscribe(SubSeq(ls, 1, Len(ls) - 1), c), ls[Len(ls)])

WsOpen(c) ==
  /\ Running
  /\ readyState[c] = "NONE"
  /\ \A d \in Conns : d < c => readyState[d] # "NONE"
  /\ readyState' = [readyState EXCEPT ![c] = "OPEN"]
  /\ listeners' = Subscribe(listeners, c)
  /\ event' = [Ev("ws-open") EXCEPT !.ws = c]
  /\ UNCHANGED <<now, nextSweep, udpReady, sentMessages, deferred, registered>>
  /\ UNCHANGED clientVars

\* The connection starts to close; the close handler has not run yet.
WsClosing(c) ==
  /\ Running
  /\ readyState[c] = "OPEN"
  /\ readyState' = [readyState EXCEPT ![c] = "CLOSING"]
  /\ event' = [Ev("ws-closing") EXCEPT !.ws = c]
  /\ UNCHANGED <<now, nextSweep, udpReady, sentMessages, listeners, deferred,
                 registered>>
  /\ UNCHANGED clientVars

WsClose(c) ==
  /\ Running
  /\ readyState[c] \in {"OPEN", "CLOSING"}
  /\ readyState' = [readyState EXCEPT ![c] = "CLOSED"]
  /\ listeners' = Unsubscribe(listeners, c)
  /\ event' = [Ev("ws-close") EXCEPT !.ws = c]
  /\ UNCHANGED <<now, nextSweep, udpReady, sentMessages, deferred, registered>>
  /\ UNCHANGED clientVars

(***************************************************************************)
(* websocket.message                                                       *)
(***************************************************************************)
\* What the network can answer to the request: the send callback gets an
\* error or none; a request that hands nothing to the socket has no callback.
SendOutcomes(raw) ==
  IF /\ raw.text = "object"
     /\ raw.type \in {"udp-send", "udp-send-no-echo"}
     /\ raw.hasData
     /\ ValidPort(raw.port)
  THEN BOOLEAN
  ELSE {TRUE}

\* message(ws, raw) makes no use of ws: the step is the same whichever open
\* connection the frame came from.
WsMessage(raw) ==
  /\ \E c \in Conns : readyState[c] = "OPEN"
  /\ \/ /\ udpReady = "pending"
        /\ Len(deferred) < MaxPending
        /\ deferred' = Append(deferred, [raw |-> raw, at |-> now])
        /\ event' = Ev("ws-deferred")
        /\ UNCHANGED <<sentMessages, registered>>
     \/ /\ udpReady = "rejected"
        /\ event' = [Ev("ws-rejected") EXCEPT !.raw = raw]
        /\ UNCHANGED <<sentMessages, registered, deferred>>
     \/ /\ udpReady = "resolved"
        /\ \E net \in SendOutcomes(raw) :
             LET st == HandleMessage(St(sentMessages, registered),
                                     raw, now, net)
             IN  /\ sentMessages' = st.table
                 /\ registered' = st.registered
                 /\ event' = [Ev("ws-message") EXCEPT !.raw = raw,
                                !.udp = st.udp, !.errors = st.errors,
                                !.refreshed = st.refreshed]
        /\ UNCHANGED deferred
  /\ UNCHANGED <<now, nextSweep, udpReady, listeners, readyState>>
  /\ UNCHANGED clientVars

(***************************************************************************)
(* The UDP socket's 'message' event: every listener is called in turn.     *)
(***************************************************************************)
\* Faulty variant of ShouldSkip: the entry's age is checked on read.
ShouldSkipFresh(msg, rinfo) ==
  /\ HandlerKey(msg, rinfo) \in DOMAIN sentMessages
  /\ now - sentMessages[HandlerKey(msg, rinfo)] <= NO_ECHO_TIMEOUT

\* if (sentMessages.has(msgKey)) return;
ShouldSkip(msg, rinfo) == HandlerKey(msg, rinfo) \in DOMAIN sentMessages

\* Faulty variant of UdpHandler: only the first connection's handler looks
\* at the table.
UdpHandlerFirstFilters(c, msg, rinfo) ==
  IF c = 1 /\ ShouldSkip(msg, rinfo) THEN <<>>
  ELSE IF readyState[c] = "OPEN" THEN << Envelope(msg, rinfo) >>
  ELSE <<>>

\* Faulty variant of UdpHandler: readyState is not looked at.
UdpHandlerAnyState(c, msg, rinfo) ==
  IF ShouldSkip(msg, rinfo) THEN <<>> ELSE << Envelope(msg, rinfo) >>

\* What one call of connection c's udpHandler pushes to its channel.
UdpHandler(c, msg, rinfo) ==
  IF ShouldSkip(msg, rinfo) THEN <<>>
  ELSE IF readyState[c] = "OPEN" THEN << Envelope(msg, rinfo) >>
  ELSE <<>>

\* Faulty variant of Emit: only the first listener is called.
EmitFirstOnly(ls, msg, rinfo) ==
  IF ls = <<>> THEN [c \in Conns |-> <<>>]
  ELSE [[c \in Conns |-> <<>>] EXCEPT ![Head(ls)] = UdpHandler(Head(ls), msg, rinfo)]

\* emit("message", msg, rinfo): the frames each connection is sent.
RECURSIVE Emit(_, _, _)
Emit(ls, msg, rinfo) ==
  IF ls = <<>> THEN [c \in Conns |-> <<>>]
  ELSE LET rest == Emit(Tail(ls), msg, rinfo)
           c == Head(ls)
       IN  [rest EXCEPT ![c] = UdpHandler(c, msg, rinfo) \o @]

\* The request types under which the previous callback sent this payload:
\* the datagram may be the echo of such a send.
EchoOf(msg) ==
  { event.udp[i].type : i \in {j \in 1..Len(event.udp) : event.udp[j].data = msg} }

\* Faulty variant of UdpMessage: a matching entry is deleted on read.
UdpMessageConsuming(rinfo, msg) ==
  /\ udpReady = "resolved"
  /\ event' = [Ev("udp-message") EXCEPT
                 !.dgram = [address |-> rinfo.address, port |-> rinfo.port,
                            data |-> msg],
                 !.echoOf = EchoOf(msg),
                 !.called = Range(listeners),
                 !.skipped = {c \in Range(listeners) : ShouldSkip(msg, rinfo)},
                 !.frames = Emit(listeners, msg, rinfo)]
  /\ sentMessages' =
       [k \in DOMAIN sentMessages \ {HandlerKey(msg, rinfo)} |-> sentMessages[k]]
  /\ UNCHANGED <<now, nextSweep, udpReady, listeners, readyState, deferred,
                 registered>>
  /\ UNCHANGED clientVars

UdpMessage(rinfo, msg) ==
  /\ udpReady = "resolved"
  /\ event' = [Ev("udp-message") EXCEPT
                 !.dgram = [address |-> rinfo.address, port |-> rinfo.port,
                            data |-> msg],
                 !.echoOf = EchoOf(msg),
                 !.called = Range(listeners),
                 !.skipped = {c \in Range(listeners) : ShouldSkip(msg, rinfo)},
                 !.frames = Emit(listeners, msg, rinfo)]
  /\ UNCHANGED <<now, nextSweep, udpReady, sentMessages, listeners,
                 readyState, deferred, registered>>
  /\ UNCHANGED clientVars

(***************************************************************************)
(* The relay.                                                              *)
(***************************************************************************)
Next ==
  \/ Tick
  \/ Sweep
  \/ UdpListening
  \/ UdpBindError
  \/ \E c \in Conns : WsOpen(c)
  \/ \E c \in Conns : WsClosing(c)
  \/ \E c \in Conns : WsClose(c)
  \/ \E raw \in RawMessages : WsMessage(raw)
  \/ \E rinfo \in Sources, msg \in InPayloads : UdpMessage(rinfo, msg)

Spec == Init /\ [][Next]_vars

\* The clock advances and the interval timer fires whenever it is due.
FairSpec == Spec /\ WF_vars(Tick) /\ WF_vars(Sweep)

\* The client on its own, against any behaviour of the server's end.
ClientSpec == Init /\ [][ClientNext]_vars

(***************************************************************************)
(* Properties.                                                             *)
(***************************************************************************)
\* The last callback was the UDP socket's 'message' event.
IsDatagram == event.kind = "udp-message"

Payload == event.dgram.data

\* Some client has asked for p with udp-send-no-echo; the time since the
\* latest such request.
Registered(p) == registered[p].at >= 0

Age(p) == now - registered[p].at

\* No sweep has run more than the window after the latest request for p.
NotSwept(p) == LastSweep <= registered[p].at + NO_ECHO_TIMEOUT

\* The table holds an entry with payload p.
Tracked(p) == \E k \in DOMAIN sentMessages : k.data = p

OpenConns == { c \in Conns : readyState[c] = "OPEN" }

\* The udp-message envelope of the datagram, as received.
ExpectedFrame ==
  [type |-> "udp-message", address |-> event.dgram.address,
   port |-> event.dgram.port, data |-> event.dgram.data]

DeliveredToOpen == \A c \in OpenConns : event.frames[c] = << ExpectedFrame >>

DeliveredToNone == \A c \in Conns : event.frames[c] = <<>>

Skipped(c) == c \in event.skipped

\* C1: a datagram whose payload was registered by a udp-send-no-echo request
\* at most 100 ms ago is pushed to no connection; a datagram whose payload
\* differs from every tracked entry is pushed to every open connection.
C1 ==
  IsDatagram =>
    /\ (Registered(Payload) /\ Age(Payload) <= NO_ECHO_TIMEOUT) => DeliveredToNone
    /\ ~Tracked(Payload) => DeliveredToOpen

\* An echo arrives 100 ms after its registration, every connection is open,
\* and nobody receives it.
C1_Witness ==
  /\ IsDatagram
  /\ Registered(Payload)
  /\ Age(Payload) = NO_ECHO_TIMEOUT
  /\ OpenConns = Conns
  /\ DeliveredToNone

\* C2 as stated: once a sweep has run 100 ms or more after the latest
\* registration of the payload, the datagram is pushed to every open
\* connection.
C2_Original ==
  (IsDatagram /\ Registered(Payload)
     /\ LastSweep >= registered[Payload].at + NO_ECHO_TIMEOUT)
    => DeliveredToOpen

\* C2, amended: once a sweep has run more than 100 ms after the latest
\* registration of the payload, the datagram is pushed to every open
\* connection.
C2 ==
  (IsDatagram /\ Registered(Payload)
     /\ LastSweep > registered[Payload].at + NO_ECHO_TIMEOUT)
    => DeliveredToOpen

C2_Witness ==
  /\ IsDatagram
  /\ Registered(Payload)
  /\ LastSweep > registered[Payload].at + NO_ECHO_TIMEOUT
  /\ OpenConns # {}
  /\ DeliveredToOpen

\* C3 as stated: a handler skips the datagram iff its payload was registered
\* at most 100 ms ago.
C3_Original ==
  IsDatagram =>
    \A c \in event.called :
      Skipped(c) <=> (Registered(Payload) /\ Age(Payload) <= NO_ECHO_TIMEOUT)

\* C3, amended: a handler skips the datagram iff its payload was registered
\* and no sweep has run more than 100 ms after the latest registration.
C3 ==
  IsDatagram =>
    \A c \in event.called :
      Skipped(c) <=> (Registered(Payload) /\ NotSwept(Payload))

\* A datagram is skipped on account of an entry older than the window.
C3_Witness ==
  /\ IsDatagram
  /\ event.called # {}
  /\ event.skipped = event.called
  /\ Registered(Payload)
  /\ Age(Payload) > NO_ECHO_TIMEOUT

\* C4 as stated: the echo of a plain udp-send is pushed to every open
\* connection, whatever else clients have sent.
C4_Original ==
  (IsDatagram /\ "udp-send" \in event.echoOf) => DeliveredToOpen

\* C4, amended: the echo of a plain udp-send is pushed to every open
\* connection as received, unless a udp-send-no-echo request for the same
\* payload is still tracked (registered and not yet swept).
C4 ==
  (IsDatagram /\ "udp-send" \in event.echoOf
     /\ ~(Registered(Payload) /\ NotSwept(Payload)))
    => DeliveredToOpen

C4_Witness ==
  /\ IsDatagram
  /\ "udp-send" \in event.echoOf
  /\ ~Registered(Payload)
  /\ Cardinality(OpenConns) >= 2
  /\ DeliveredToOpen

\* C5: a datagram that matches no table entry is pushed exactly once, as the
\* envelope of its source address, source port and bytes, to every open
\* connection, and not at all to a connection that is closed or not yet
\* made.
C5 ==
  (IsDatagram /\ ~Tracked(Payload)) =>
    \A c \in Conns :
      /\ readyState[c] = "OPEN" => event.frames[c] = << ExpectedFrame >>
      /\ readyState[c] \in {"NONE", "CLOSED"} => event.frames[c] = <<>>

C5_Witness ==
  /\ IsDatagram
  /\ ~Tracked(Payload)
  /\ \E c, d \in Conns :
       /\ readyState[c] = "OPEN" /\ event.frames[c] = << ExpectedFrame >>
       /\ readyState[d] = "CLOSED" /\ event.frames[d] = <<>>

\* C6: once the close handler of a connection has run, its udpHandler is not
\* a listener of the socket, and no datagram calls it or pushes a frame to
\* it.
C6 ==
  \A c \in Conns :
    readyState[c] = "CLOSED" =>
      /\ c \notin Range(listeners)
      /\ IsDatagram => (c \notin event.called /\ event.frames[c] = <<>>)

\* A datagram is delivered to an open connection while another is closed.
C6_Witness ==
  /\ IsDatagram
  /\ \E c, d \in Conns :
       /\ readyState[c] = "CLOSED" /\ c \notin event.called
       /\ d \in event.called /\ event.frames[d] # <<>>

\* C7 as stated: a message that is not JSON, or whose type is not a send
\* request, is logged, sends no datagram, and leaves the relay running and
\* the connections, the sender among them, open and subscribed.
C7_Claim ==
  (event.kind = "ws-message"
     /\ (event.raw.text # "object" \/ event.raw.type \notin {"udp-send", "udp-send-no-echo"}))
    => /\ event.errors # <<>>
       /\ event.udp = <<>>
       /\ udpReady = "resolved"
       /\ OpenConns # {}
       /\ OpenConns \subseteq Range(listeners)

\* C8: whenever a udp-send-no-echo datagram is handed to the socket, the
\* table already holds its payload, and still holds it when the handler
\* returns.
C8 ==
  \A i \in 1..Len(event.udp) :
    event.udp[i].type = "udp-send-no-echo" =>
      (event.udp[i].tracked /\ Tracked(event.udp[i].data))

C8_Witness ==
  /\ event.kind = "ws-message"
  /\ Len(event.udp) = 1
  /\ event.udp[1].type = "udp-send-no-echo"
  /\ event.udp[1].tracked
  /\ registered[event.udp[1].data].at = now

OpenCalled == OpenConns \cap event.called

\* C11: one datagram is pushed to all open subscribed connections or to none
\* of them; a connection receives nothing exactly when its handler skipped
\* the datagram, and then every handler skipped it.
C11 ==
  IsDatagram =>
    /\ \A c, d \in OpenCalled : event.frames[c] = event.frames[d]
    /\ \A c \in OpenCalled : event.frames[c] = <<>> <=> Skipped(c)
    /\ event.skipped \in {{}, event.called}

\* Two open connections are called with a tracked payload and neither is
\* sent a frame.
C11_Witness ==
  /\ IsDatagram
  /\ Cardinality(OpenCalled) >= 2
  /\ Tracked(Payload)
  /\ event.skipped = event.called
  /\ \A c \in OpenCalled : event.frames[c] = <<>>

\* C12: the 'message' event of the UDP socket leaves the table as it is,
\* whether the datagram is skipped or pushed; a datagram with the payload of
\* a skipped one that comes straight after it is skipped too; and only the
\* sweep removes a key from the table.
C12 ==
  [][ /\ event'.kind = "udp-message" => sentMessages' = sentMessages
      /\ (/\ IsDatagram
          /\ event.called # {}
          /\ event.skipped = event.called
          /\ event'.kind = "udp-message"
          /\ event'.dgram.data = Payload)
           => event'.skipped = event'.called
      /\ ~(DOMAIN sentMessages \subseteq DOMAIN sentMessages')
           => event'.kind = "sweep" ]_vars

\* A datagram has been skipped by every handler and its entry is still in
\* the table, as old as the window allows.
C12_Witness ==
  /\ IsDatagram
  /\ event.called # {}
  /\ event.skipped = event.called
  /\ MsgKey(Payload) \in DOMAIN sentMessages
  /\ now - sentMessages[MsgKey(Payload)] >= NO_ECHO_TIMEOUT

\* The last callback handled a send request that carries "data".
IsSendRequest ==
  /\ event.kind = "ws-message"
  /\ event.raw.text = "object"
  /\ event.raw.type \in {"udp-send", "udp-send-no-echo"}
  /\ event.raw.hasData

\* The request of the last callback fails the validation the claim names:
\* an entry of data outside 0..255, no port, or no address.
FailsValidation ==
  \/ \E i \in 1..Len(event.raw.data) : event.raw.data[i] \notin 0..255
  \/ event.raw.port = 0
  \/ event.raw.address = ""

C14 ==
  \A c \in Conns :
    IF IsDatagram
    THEN /\ event.frames[c] \in { <<>>, << ExpectedFrame >> }
         /\ event.frames[c] # <<>> => c \in event.called
    ELSE event.frames[c] = <<>>

\* One subscribed connection is sent the datagram's envelope, once, and
\* another subscribed connection, which is closing, is sent nothing.
C14_Witness ==
  /\ IsDatagram
  /\ \E c, d \in event.called :
       /\ event.frames[c] = << ExpectedFrame >>
       /\ readyState[d] = "CLOSING"
       /\ event.frames[d] = <<>>

\* The send attempts of the last callback that failed; the lines its send
\* callbacks logged.
FailedSends(e) == { i \in 1..Len(e.udp) : ~e.udp[i].ok }

SendErrors(e) == { j \in 1..Len(e.errors) : e.errors[j] = "UDP send error" }

\* C15: a client message causes at most one send attempt; every failed
\* attempt is logged once; the callback in which a send fails closes no
\* connection and leaves the listeners as they are; and the next request a
\* client makes after a failed send is attempted all the same.
C15 ==
  [][ /\ event'.kind = "ws-message" => Len(event'.udp) <= 1
      /\ event'.kind = "listening" => Len(event'.udp) <= Len(deferred)
      /\ Cardinality(SendErrors(event')) = Cardinality(FailedSends(event'))
      /\ FailedSends(event') # {}
           => (readyState' = readyState /\ listeners' = listeners)
      /\ (/\ FailedSends(event) # {}
          /\ event'.kind = "ws-message"
          /\ event'.raw \in WellFormed)
           => Len(event'.udp) = 1 ]_vars

\* A send has failed and was logged; both connections are open and
\* subscribed.
C15_Witness ==
  /\ event.kind = "ws-message"
  /\ Len(event.udp) = 1
  /\ ~event.udp[1].ok
  /\ event.errors = << "UDP send error" >>
  /\ OpenConns = Conns
  /\ Range(listeners) = Conns

\* The callbacks that handle, park or drop a client message.
ClientMessageKinds == {"ws-message", "ws-deferred", "ws-rejected", "listening"}

\* C16: every frame pushed to a connection is the udp-message envelope of
\* the inbound datagram being handled, which no table entry matches; the
\* callbacks that deal with client messages push nothing to anyone.
C16 ==
  /\ \A c \in Conns :
       event.frames[c] # <<>> =>
         /\ IsDatagram
         /\ ~Tracked(Payload)
         /\ c \notin event.skipped
         /\ \A i \in 1..Len(event.frames[c]) :
              /\ event.frames[c][i].type = "udp-message"
              /\ event.frames[c][i].data = Payload
              /\ event.frames[c][i].address = event.dgram.address
              /\ event.frames[c][i].port = event.dgram.port
  /\ event.kind \in ClientMessageKinds => DeliveredToNone

\* A client message was logged as invalid and no connection, all of them
\* open, was sent anything.
C16_Witness ==
  /\ event.kind = "ws-message"
  /\ event.errors = << "Invalid WS message" >>
  /\ OpenConns = Conns
  /\ DeliveredToNone

\* The subscribed connections whose channel is not open.
NotOpenCalled == { c \in event.called : readyState[c] # "OPEN" }

\* C17: a datagram that no table entry matches is pushed to every open
\* subscribed connection, whatever the state of the others; a subscribed
\* connection that is not open is sent nothing, nothing is logged, and the
\* next callback sends it nothing either.
C17 ==
  /\ [](IsDatagram /\ ~Tracked(Payload) =>
          /\ \A c \in NotOpenCalled : event.frames[c] = <<>>
          /\ \A d \in OpenCalled : event.frames[d] = << ExpectedFrame >>
          /\ event.errors = <<>>)
  /\ [][ IsDatagram => \A c \in NotOpenCalled : event'.frames[c] = <<>> ]_vars

\* A datagram is pushed to an open connection while the push to a closing
\* one is dropped.
C17_Witness ==
  /\ IsDatagram
  /\ ~Tracked(Payload)
  /\ NotOpenCalled # {}
  /\ OpenCalled # {}
  /\ \A c \in NotOpenCalled : event.frames[c] = <<>>
  /\ \A d \in OpenCalled : event.frames[d] = << ExpectedFrame >>
  /\ event.errors = <<>>

\* bind() has failed.
BindFailed == udpReady \in {"rejected", "exited"}

RequestKey(raw) == [data |-> [i \in 1..Len(raw.data) |-> raw.data[i] % 256]]

\* C19: a udp-send-no-echo request leaves exactly the entries the table had,
\* together with one entry for its payload whose timestamp is the time of
\* the request, whether or not the payload was tracked before: the table is
\* the one a single registration at the later time gives, and every other
\* entry keeps its timestamp.
C19 ==
  [][ (/\ event'.kind = "ws-message"
       /\ event'.raw.text = "object"
       /\ event'.raw.type = "udp-send-no-echo"
       /\ event'.raw.hasData)
        => LET k == RequestKey(event'.raw)
           IN  /\ DOMAIN sentMessages' = DOMAIN sentMessages \cup {k}
               /\ sentMessages'[k] = now
               /\ \A x \in DOMAIN sentMessages \ {k} :
                    sentMessages'[x] = sentMessages[x]
               /\ event'.refreshed = {k} \cap DOMAIN sentMessages ]_vars

\* A payload that is tracked is registered again: its entry
\* carries the time of the request and the older entry has kept its own.
C19_Witness ==
  /\ event.kind = "ws-message"
  /\ event.refreshed = { [data |-> <<1, 2>>] }
  /\ DOMAIN sentMessages = { [data |-> <<1>>], [data |-> <<1, 2>>] }
  /\ sentMessages[[data |-> <<1, 2>>]] = now
  /\ sentMessages[[data |-> <<1>>]] < now

\* The latest registration time that leaves room, before the clock of the
\* model stops, for the sweep that removes the entry.
LastSwept == MaxTime - (NO_ECHO_TIMEOUT + SWEEP_INTERVAL)

\* The table holds p and its entry is due for removal within the horizon.
Due(p) ==
  /\ MsgKey(p) \in DOMAIN sentMessages
  /\ sentMessages[MsgKey(p)] <= LastSwept

\* C20: with the sweep firing every 50 ms, no entry is older than 150 ms and
\* none is older than 100 ms once a sweep has run; the entries in the table
\* are eventually removed unless they are registered again; and when the latest
\* sweep ran more than 100 ms after every registration, the table is empty
\* and a datagram is pushed to every open connection.
C20 ==
  /\ [](\A k \in DOMAIN sentMessages :
          /\ now - sentMessages[k] <= NO_ECHO_TIMEOUT + SWEEP_INTERVAL
          /\ LastSweep - sentMessages[k] <= NO_ECHO_TIMEOUT)
  /\ (\E p \in InPayloads : Due(p)) ~> (\A p \in InPayloads : ~Due(p))
  /\ []((\A p \in InPayloads :
           Registered(p) => LastSweep > registered[p].at + NO_ECHO_TIMEOUT)
          => /\ sentMessages = EmptyMap
             /\ IsDatagram => DeliveredToOpen)

\* An entry is 150 ms old, the sweep that removes it is due, and a datagram
\* with its payload is still skipped.
C20_Witness ==
  /\ IsDatagram
  /\ MsgKey(Payload) \in DOMAIN sentMessages
  /\ now - sentMessages[MsgKey(Payload)] = NO_ECHO_TIMEOUT + SWEEP_INTERVAL
  /\ now >= nextSweep
  /\ event.called # {}
  /\ event.skipped = event.called

\* C21 as stated: from a disconnect() on a connected client until the user
\* calls connect() again, isConnected() is false.
C21_Claim == disconnected => ~IsConnected

\* C22: sendUDP and sendUDPNoEcho throw and transmit nothing unless this.ws is
\* an OPEN socket; on an OPEN socket a call transmits exactly one frame, of
\* the type of the method, with the data given and the address and port
\* given or else 127.0.0.1 and 6454; isConnected() is true exactly when
\* this.ws is OPEN.
IsSend == clientEvent.kind \in {"udp-send", "udp-send-no-echo"}

C22_Sends ==
  /\ (IsConnected <=> ws = "OPEN")
  /\ IsSend =>
       /\ (clientEvent.thrown <=> ws # "OPEN")
       /\ clientEvent.thrown => clientEvent.sent = <<>>
       /\ ~clientEvent.thrown =>
            /\ Len(clientEvent.sent) = 1
            /\ clientEvent.sent[1].type = clientEvent.kind
            /\ clientEvent.sent[1].data = clientEvent.options.data
            /\ clientEvent.sent[1].address =
                 (IF clientEvent.options.address = ""
                  THEN "127.0.0.1" ELSE clientEvent.options.address)
            /\ clientEvent.sent[1].port =
                 (IF clientEvent.options.port = 0
                  THEN 6454 ELSE clientEvent.options.port)

\* A sendUDPNoEcho without address and port went out on an open socket.
C22_Witness ==
  /\ clientEvent.kind = "udp-send-no-echo"
  /\ clientEvent.options.address = ""
  /\ ~clientEvent.thrown
  /\ clientEvent.sent[1].port = 6454

\* A send was refused because this.ws is a socket that is not open yet.
C22_WitnessThrown ==
  /\ IsSend /\ clientEvent.thrown /\ ws = "CONNECTING"

\* C23: reconnection is bounded.  The attempt counter stays within 0..5; a
\* close event schedules one more attempt and counts it while the counter is
\* below 5, and at 5 gives up and schedules nothing; an open event puts the
\* counter back to 0; nothing else changes the counter.
C23_Counter ==
  /\ reconnectAttempts \in 0 .. 5
  /\ clientEvent.kind = "open" => reconnectAttempts = 0
  /\ clientEvent.kind = "close" =>
       IF clientEvent.gaveUp
       THEN reconnectAttempts = 5 /\ clientEvent.delay = 0
       ELSE reconnectAttempts \in 1 .. 5 /\ clientEvent.delay > 0

C23_Step ==
  /\ clientEvent'.kind = "close" =>
       IF reconnectAttempts >= 5
       THEN /\ clientEvent'.gaveUp
            /\ timers' = timers
            /\ reconnectAttempts' = reconnectAttempts
       ELSE /\ ~clientEvent'.gaveUp
            /\ timers' = timers + 1
            /\ reconnectAttempts' = reconnectAttempts + 1
  /\ clientEvent'.kind \notin {"close", "open"} =>
       reconnectAttempts' = reconnectAttempts
  /\ clientEvent'.kind # "close" => timers' <= timers

C23_Bounded == []C23_Counter /\ [][C23_Step]_vars

\* After five attempts without an open the client has given up.
C23_Witness == clientEvent.kind = "close" /\ clientEvent.gaveUp

\* C24: the n-th consecutive attempt is scheduled with a delay of
\* 1000 * 2^(n-1) ms, that is 1000, 2000, 4000, 8000, 16000 for n = 1..5, and
\* the first attempt scheduled after an open has a delay of 1000 ms again.
Backoff == <<1000, 2000, 4000, 8000, 16000>>

Scheduled == clientEvent.kind = "close" /\ ~clientEvent.gaveUp

C24_Delays ==
  /\ Scheduled =>
       /\ reconnectAttempts \in 1 .. 5
       /\ clientEvent.delay = Backoff[reconnectAttempts]
       /\ clientEvent.delay = 1000 * 2 ^ (reconnectAttempts - 1)

C24_Restart ==
  clientEvent.kind = "open" /\ clientEvent'.kind = "close" =>
    ~clientEvent'.gaveUp /\ clientEvent'.delay = 1000

C24_Backoff == []C24_Delays /\ [][C24_Restart]_vars

\* The fifth consecutive attempt was scheduled 16 s ahead.
C24_Witness == Scheduled /\ clientEvent.delay = 16000

\* C29 as stated: never more than one open socket is attached to the client,
\* so a datagram forwarded by the bridge calls each message handler once.
C29_Claim ==
  /\ OpenSockets(ws, orphans) <= 1
  /\ clientEvent.kind = "datagram" => clientEvent.calls = messageHandlers

\* C25: in every state the forwarding callbacks subscribed to the UDP socket
\* are exactly one per connection whose open handler has run and whose close
\* handler has not; the open handler adds the callback of its connection,
\* the close handler removes that one and no other, and nothing else changes
\* the subscriptions.
Connected == { c \in Conns : readyState[c] \in {"OPEN", "CLOSING"} }

C25_Paired ==
  /\ Range(listeners) = Connected
  /\ Len(listeners) = Cardinality(Connected)

C25_Step ==
  /\ event'.kind = "ws-open" =>
       /\ event'.ws \notin Range(listeners)
       /\ listeners' = Append(listeners, event'.ws)
  /\ event'.kind = "ws-close" =>
       /\ Range(listeners') = Range(listeners) \ {event'.ws}
       /\ Len(listeners') = Len(listeners) - 1
  /\ event'.kind \notin {"ws-open", "ws-close"} => listeners' = listeners

C25_Pairing == []C25_Paired /\ [][C25_Step]_vars

\* One connection has been closed while another, opened before it, stays
\* subscribed.
C25_Witness ==
  /\ event.kind = "ws-close"
  /\ readyState[event.ws] = "CLOSED"
  /\ \E c \in Conns : c < event.ws /\ listeners = << c >>

\* C26: a sweep removes exactly the entries that are more than 100 ms old,
\* leaves the other entries as they were, and changes neither the
\* subscriptions nor the connections nor the clock.
C26_Step ==
  event'.kind = "sweep" =>
    /\ DOMAIN sentMessages' =
         { k \in DOMAIN sentMessages : now - sentMessages[k] <= 100 }
    /\ \A k \in DOMAIN sentMessages' : sentMessages'[k] = sentMessages[k]
    /\ UNCHANGED <<now, udpReady, listeners, readyState, deferred>>

C26_Sweep == [][C26_Step]_vars

\* A sweep has removed one entry and kept another.
C26_Witness ==
  /\ event.kind = "sweep"
  /\ \E p, q \in DOMAIN registered :
       /\ Registered(p) /\ Age(p) > 100 /\ ~Tracked(p)
       /\ Registered(q) /\ Age(q) <= 100 /\ Tracked(q)

Passes(m) ==
  /\ m.raw.text = "object"
  /\ m.raw.type \in {"udp-send", "udp-send-no-echo"}
  /\ m.raw.hasData
  /\ m.raw.port \in 1 .. 65535

Passing(queue) == SelectSeq(queue, Passes)

====
